---- MODULE Spec2Model ----
(***************************************************************************)
(* Model of the telemetry aggregation of unraid-mcp:                       *)
(*   - tools/health.py : health_check                                      *)
(*   - tools/system.py : _get_array_status (format_kb, analyze_disk_health)*)
(*                                                                         *)
(* Python values are modelled as follows.  A dict is a function whose      *)
(* domain is the set of keys present; a value that may be null is a        *)
(* tagged record (None, Num(n), Text(s), List(xs)); a str is a string and  *)
(* a list that is never null is a sequence.  An exception is the pair      *)
(* (raised, error) carried through the statements that follow the raising  *)
(* one, which are then skipped.                                            *)
(***************************************************************************)
EXTENDS Integers, Sequences, FiniteSets, TLC

(***************************************************************************)
(* Bounds of the model.                                                    *)
(***************************************************************************)
\* largest unread alert / warning count drawn for a notifications section
MaxAlerts == 2
\* largest number of containers in a docker section
MaxContainers == 2
\* largest number of disks in one array payload, all roles together
MaxDisks == 3
\* longest disk list handed to analyze_disk_health on its own
MaxList == 2

(***************************************************************************)
(* Python values.                                                          *)
(***************************************************************************)
None == [kind |-> "none"]
Num(n) == [kind |-> "int", int |-> n]
Text(s) == [kind |-> "str", str |-> s]
List(xs) == [kind |-> "list", items |-> xs]
EmptyDict == [k \in {} |-> 0]

\* d.get(k, default)
Get(d, k, default) == IF k \in DOMAIN d THEN d[k] ELSE default

\* d[k] = v
DictSet(d, k, v) == (k :> v) @@ d

\* truth value of something that is a dict or None
TruthyDict(v) == v # None /\ DOMAIN v # {}

\* truth value of something that is a list or None
TruthyList(v) == v # None /\ Len(v.items) > 0

\* truth value of a scalar: None, 0 and "" are false
TruthyScalar(v) ==
    CASE v.kind = "none" -> FALSE
      [] v.kind = "int"  -> v.int # 0
      [] v.kind = "str"  -> v.str # ""

\* str(v) of a scalar, as an f-string renders it
PyStr(v) ==
    CASE v.kind = "none" -> "None"
      [] v.kind = "int"  -> ToString(v.int)
      [] v.kind = "str"  -> v.str

\* s.startswith(p)
StartsWith(s, p) == Len(s) >= Len(p) /\ SubSeq(s, 1, Len(p)) = p

AttributeErrorGet == "'NoneType' object has no attribute 'get'"
AttributeErrorStartswith == "'NoneType' object has no attribute 'startswith'"
TypeErrorGt == "'>' not supported between instances of 'NoneType' and 'int'"

(***************************************************************************)
(* health_check: time.  A latency is a number of hundredths of a           *)
(* millisecond, the resolution round(..., 2) leaves.                       *)
(***************************************************************************)
Ms(n) == n * 100

\* str() of the float round(x, 2): at least one decimal, no trailing zero
PyFloatStr(l) ==
    LET whole == l \div 100
        frac  == l % 100
    IN  ToString(whole) \o "." \o
        (IF frac % 10 = 0 THEN ToString(frac \div 10)
         ELSE IF frac < 10 THEN "0" \o ToString(frac)
         ELSE ToString(frac))

Server == [name |-> "Unraid MCP Server", version |-> "0.1.0"]

(***************************************************************************)
(* health_check: the statements after the telemetry call.  The state of    *)
(* the evaluation is the locals health_status, issues, health_info and     *)
(* the pending exception.                                                  *)
(***************************************************************************)
BaseHealthInfo(api_latency) ==
    [status |-> "healthy", timestamp |-> "utcnow",
     api_latency_ms |-> api_latency, server |-> Server]

StartEval(api_latency) ==
    [health_status |-> "healthy", issues |-> <<>>,
     health_info |-> BaseHealthInfo(api_latency),
     raised |-> FALSE, error |-> ""]

Raise(st, msg) == [st EXCEPT !.raised = TRUE, !.error = msg]

\* Flag that appends the issue and leaves health_status as it is
Flag_IssueOnly(st, status, issue) ==
    [st EXCEPT !.issues = Append(@, issue)]

\* health_status = status; issues.append(issue)
Flag(st, status, issue) ==
    [st EXCEPT !.health_status = status, !.issues = Append(@, issue)]

\* NoResponseReport without `health_info["status"] = health_status`
NoResponseReport_StaleStatus(api_latency) ==
    DictSet(BaseHealthInfo(api_latency), "issues",
            <<"No response from Unraid API">>)

\* if not response_data: ... return health_info
NoResponseReport(api_latency) ==
    DictSet(DictSet(BaseHealthInfo(api_latency), "status", "unhealthy"),
            "issues", <<"No response from Unraid API">>)

\* System info analysis
CheckInfo(rd, st) ==
    LET info == Get(rd, "info", EmptyDict)
        versions == Get(info, "versions", EmptyDict)
        core == Get(versions, "core", EmptyDict)
        os == Get(info, "os", EmptyDict)
    IN  IF st.raised THEN st
        ELSE IF TruthyDict(info)
        THEN IF versions = None \/ core = None \/ os = None
             THEN Raise(st, AttributeErrorGet)
             ELSE [st EXCEPT !.health_info = DictSet(@, "unraid_system",
                      [status |-> "connected",
                       machine_id |-> Get(info, "machineId", None),
                       time |-> Get(info, "time", None),
                       version |-> Get(core, "unraid", None),
                       uptime |-> Get(os, "uptime", None)])]
        ELSE Flag(st, "degraded", "Unable to retrieve system info")

\* CheckArray that expects only a started array
CheckArray_OnlyStarted(rd, st) ==
    LET array_info == Get(rd, "array", EmptyDict)
        array_state == Get(array_info, "state", Text("unknown"))
        expected == array_state = Text("STARTED")
        st1 == [st EXCEPT !.health_info = DictSet(@, "array_status",
                   [state |-> array_state, healthy |-> expected])]
    IN  IF st.raised THEN st
        ELSE IF TruthyDict(array_info)
        THEN IF ~expected
             THEN Flag(st1, "warning",
                       "Array in unexpected state: " \o PyStr(array_state))
             ELSE st1
        ELSE Flag(st, "warning", "Unable to retrieve array status")

\* Array health analysis
CheckArray(rd, st) ==
    LET array_info == Get(rd, "array", EmptyDict)
        array_state == Get(array_info, "state", Text("unknown"))
        expected == array_state \in {Text("STARTED"), Text("STOPPED")}
        st1 == [st EXCEPT !.health_info = DictSet(@, "array_status",
                   [state |-> array_state, healthy |-> expected])]
    IN  IF st.raised THEN st
        ELSE IF TruthyDict(array_info)
        THEN IF ~expected
             THEN Flag(st1, "warning",
                       "Array in unexpected state: " \o PyStr(array_state))
             ELSE st1
        ELSE Flag(st, "warning", "Unable to retrieve array status")

\* CheckNotifications that tolerates a single unread alert
CheckNotifications_Tolerant(rd, st) ==
    LET notifications == Get(rd, "notifications", EmptyDict)
        overview == Get(notifications, "overview", None)
        unread == Get(overview, "unread", EmptyDict)
        alert_count == Get(unread, "alert", Num(0))
        warning_count == Get(unread, "warning", Num(0))
        total_unread == Get(unread, "total", Num(0))
        st1 == [st EXCEPT !.health_info = DictSet(@, "notifications",
                   [unread_total |-> total_unread,
                    unread_alerts |-> alert_count,
                    unread_warnings |-> warning_count,
                    has_critical_notifications |-> alert_count.int > 0])]
    IN  IF st.raised THEN st
        ELSE IF TruthyDict(notifications) /\ TruthyDict(overview)
        THEN IF unread = None THEN Raise(st, AttributeErrorGet)
             ELSE IF alert_count = None THEN Raise(st, TypeErrorGt)
             ELSE IF alert_count.int > 1
             THEN Flag(st1, "warning",
                       PyStr(alert_count) \o " unread alert notification(s)")
             ELSE st1
        ELSE st

\* Notifications analysis
CheckNotifications(rd, st) ==
    LET notifications == Get(rd, "notifications", EmptyDict)
        overview == Get(notifications, "overview", None)
        unread == Get(overview, "unread", EmptyDict)
        alert_count == Get(unread, "alert", Num(0))
        warning_count == Get(unread, "warning", Num(0))
        total_unread == Get(unread, "total", Num(0))
        st1 == [st EXCEPT !.health_info = DictSet(@, "notifications",
                   [unread_total |-> total_unread,
                    unread_alerts |-> alert_count,
                    unread_warnings |-> warning_count,
                    has_critical_notifications |-> alert_count.int > 0])]
    IN  IF st.raised THEN st
        ELSE IF TruthyDict(notifications) /\ TruthyDict(overview)
        THEN IF unread = None THEN Raise(st, AttributeErrorGet)
             ELSE IF alert_count = None THEN Raise(st, TypeErrorGt)
             ELSE IF alert_count.int > 0
             THEN Flag(st1, "warning",
                       PyStr(alert_count) \o " unread alert notification(s)")
             ELSE st1
        ELSE st

\* CheckDocker that reports containers that are not up as an issue
CheckDocker_Flagging(rd, st) ==
    LET docker_info == Get(rd, "docker", EmptyDict)
        container_list == Get(docker_info, "containers", None)
        containers == container_list.items
        InState(s) == {i \in DOMAIN containers :
                          Get(containers[i], "state", None) = Text(s)}
        Up == {i \in DOMAIN containers :
                  StartsWith(Get(containers[i], "status", Text("")).str, "Up")}
        st1 == [st EXCEPT !.health_info = DictSet(@, "docker_services",
                   [total_containers |-> Len(containers),
                    running_containers |-> Cardinality(InState("running")),
                    stopped_containers |-> Cardinality(InState("exited")),
                    containers_healthy |-> Cardinality(Up)])]
    IN  IF st.raised THEN st
        ELSE IF TruthyDict(docker_info) /\ TruthyList(container_list)
        THEN IF \E i \in DOMAIN containers :
                    Get(containers[i], "status", Text("")) = None
             THEN Raise(st, AttributeErrorStartswith)
             ELSE IF Cardinality(Up) < Len(containers)
             THEN Flag(st1, "warning", "Containers not running")
             ELSE st1
        ELSE st

\* Docker services analysis
CheckDocker(rd, st) ==
    LET docker_info == Get(rd, "docker", EmptyDict)
        container_list == Get(docker_info, "containers", None)
        containers == container_list.items
        InState(s) == {i \in DOMAIN containers :
                          Get(containers[i], "state", None) = Text(s)}
        Up == {i \in DOMAIN containers :
                  StartsWith(Get(containers[i], "status", Text("")).str, "Up")}
    IN  IF st.raised THEN st
        ELSE IF TruthyDict(docker_info) /\ TruthyList(container_list)
        THEN IF \E i \in DOMAIN containers :
                    Get(containers[i], "status", Text("")) = None
             THEN Raise(st, AttributeErrorStartswith)
             ELSE [st EXCEPT !.health_info = DictSet(@, "docker_services",
                      [total_containers |-> Len(containers),
                       running_containers |-> Cardinality(InState("running")),
                       stopped_containers |-> Cardinality(InState("exited")),
                       containers_healthy |-> Cardinality(Up)])]
        ELSE st

\* CheckLatency whose first threshold is inclusive
CheckLatency_Inclusive(api_latency, st) ==
    IF st.raised THEN st
    ELSE IF api_latency >= Ms(5000)
    THEN Flag(st, "warning",
              "High API latency: " \o PyFloatStr(api_latency) \o "ms")
    ELSE IF api_latency > Ms(10000)
    THEN Flag(st, "degraded",
              "Very high API latency: " \o PyFloatStr(api_latency) \o "ms")
    ELSE st

\* API performance assessment
CheckLatency(api_latency, st) ==
    IF st.raised THEN st
    ELSE IF api_latency > Ms(5000)
    THEN Flag(st, "warning",
              "High API latency: " \o PyFloatStr(api_latency) \o "ms")
    ELSE IF api_latency > Ms(10000)
    THEN Flag(st, "degraded",
              "Very high API latency: " \o PyFloatStr(api_latency) \o "ms")
    ELSE st

\* the checks in program order; EvalSteps(rd, l, n) is the state of the
\* locals after the first n of them
NumChecks == 5

RECURSIVE EvalSteps(_, _, _)
EvalSteps(rd, api_latency, n) ==
    IF n = 0 THEN StartEval(api_latency)
    ELSE LET st == EvalSteps(rd, api_latency, n - 1)
         IN  CASE n = 1 -> CheckInfo(rd, st)
               [] n = 2 -> CheckArray(rd, st)
               [] n = 3 -> CheckNotifications(rd, st)
               [] n = 4 -> CheckDocker(rd, st)
               [] n = 5 -> CheckLatency(api_latency, st)

\* Final status determination, performance metrics, return health_info
FinalReport(st, api_latency) ==
    LET h1 == DictSet(st.health_info, "status", st.health_status)
        h2 == IF Len(st.issues) > 0 THEN DictSet(h1, "issues", st.issues)
              ELSE h1
    IN  DictSet(h2, "performance", [api_response_time_ms |-> api_latency])

\* FaultReport that reports a fixed text instead of str(e)
FaultReport_NoText(e, api_latency) ==
    [status |-> "unhealthy", timestamp |-> "utcnow",
     error |-> "Health check failed",
     api_latency_ms |-> api_latency, server |-> Server]

\* except Exception as e: return {...}
FaultReport(e, api_latency) ==
    [status |-> "unhealthy", timestamp |-> "utcnow", error |-> e,
     api_latency_ms |-> api_latency, server |-> Server]

\* The body of health_check from the resumption of the telemetry call on.
\* resp is what make_graphql_request did: it raised, or returned a payload.
health_check(resp, api_latency) ==
    IF resp.kind = "raise" THEN FaultReport(resp.error, api_latency)
    ELSE IF resp.data = None \/ DOMAIN resp.data = {}
    THEN NoResponseReport(api_latency)
    ELSE LET st == EvalSteps(resp.data, api_latency, NumChecks)
         IN  IF st.raised THEN FaultReport(st.error, api_latency)
             ELSE FinalReport(st, api_latency)

(***************************************************************************)
(* _get_array_status: int(k) of a str, and the f-string formats.           *)
(***************************************************************************)
Char(s, i) == SubSeq(s, i, i)
Tail1(s) == IF Len(s) <= 1 THEN "" ELSE SubSeq(s, 2, Len(s))
Front1(s) == IF Len(s) <= 1 THEN "" ELSE SubSeq(s, 1, Len(s) - 1)

IsSpace(c) == c \in {" ", "\t", "\n"}

RECURSIVE LStrip(_)
LStrip(s) == IF Len(s) > 0 /\ IsSpace(Char(s, 1)) THEN LStrip(Tail1(s)) ELSE s

RECURSIVE RStrip(_)
RStrip(s) ==
    IF Len(s) > 0 /\ IsSpace(Char(s, Len(s))) THEN RStrip(Front1(s)) ELSE s

IsDigit(c) == c \in {"0", "1", "2", "3", "4", "5", "6", "7", "8", "9"}

DigitVal(c) ==
    CASE c = "0" -> 0 [] c = "1" -> 1 [] c = "2" -> 2 [] c = "3" -> 3
      [] c = "4" -> 4 [] c = "5" -> 5 [] c = "6" -> 6 [] c = "7" -> 7
      [] c = "8" -> 8 [] c = "9" -> 9

\* the digits of an integer literal: digits, single underscores between them
IsDigits(s) ==
    /\ Len(s) > 0
    /\ IsDigit(Char(s, 1))
    /\ IsDigit(Char(s, Len(s)))
    /\ \A i \in 1..Len(s) : IsDigit(Char(s, i)) \/ Char(s, i) = "_"
    /\ \A i \in 1..(Len(s) - 1) : ~(Char(s, i) = "_" /\ Char(s, i + 1) = "_")

RECURSIVE DigitsVal(_, _)
DigitsVal(s, n) ==
    IF n = 0 THEN 0
    ELSE IF ~IsDigit(Char(s, n)) THEN DigitsVal(s, n - 1)
    ELSE DigitsVal(s, n - 1) * 10 + DigitVal(Char(s, n))

\* int(t) of a str without surrounding white space
ParseStripped(t, signed) ==
    IF IsDigits(IF signed THEN Tail1(t) ELSE t)
    THEN [ok |-> TRUE,
          int |-> IF signed /\ Char(t, 1) = "-"
                  THEN 0 - DigitsVal(t, Len(t))
                  ELSE DigitsVal(t, Len(t))]
    ELSE [ok |-> FALSE, int |-> 0]

\* int(s) of a str: [ok] tells whether it parses, [int] is its value
ParseInt(s) ==
    ParseStripped(RStrip(LStrip(s)),
                  Len(RStrip(LStrip(s))) > 0
                      /\ Char(RStrip(LStrip(s)), 1) \in {"+", "-"})

ValueErrorInt(s) == "invalid literal for int() with base 10: '" \o s \o "'"

\* x + y of two fractions q + r/d with r < d, without forming r * 100
FracAdd(x, y, d) ==
    LET sum == x.r + y.r
    IN  [q |-> x.q + y.q + (IF sum >= d THEN 1 ELSE 0),
         r |-> IF sum >= d THEN sum - d ELSE sum]

FracDouble(x, d) == FracAdd(x, x, d)

FracTimes10(x, d) ==
    FracAdd(FracDouble(FracDouble(FracDouble(x, d), d), d),
            FracDouble(x, d), d)

\* (q + r/d) rounded to an integer: to nearest, ties to even
RoundHalfEven(x, d) ==
    IF 2 * x.r > d \/ (2 * x.r = d /\ x.q % 2 = 1) THEN x.q + 1 ELSE x.q

\* k / d in hundredths as ".2f" rounds it
\* (d is a power of two, so the float k / d is the exact quotient)
Hundredths(k, d) ==
    RoundHalfEven(
        FracAdd([q |-> (k \div d) * 100, r |-> 0],
                FracTimes10(FracTimes10([q |-> 0, r |-> k % d], d), d), d),
        d)

Digits2(h) ==
    ToString(h \div 100) \o "." \o
        (IF h % 100 < 10 THEN "0" ELSE "") \o ToString(h % 100)

\* f"{k / d:.2f}"
Fixed2(k, d) == Digits2(Hundredths(k, d))

\* what a call did: returned a value, or raised an exception
Ok(v) == [raised |-> FALSE, value |-> v]
Exc(e) == [raised |-> TRUE, error |-> e]

\* FormatUnits with > for >= in the unit thresholds
FormatUnits_Strict(k) ==
    IF k > 1024 * 1024 * 1024
    THEN Ok(Fixed2(k, 1024 * 1024 * 1024) \o " TB")
    ELSE IF k > 1024 * 1024
    THEN Ok(Fixed2(k, 1024 * 1024) \o " GB")
    ELSE IF k > 1024
    THEN Ok(Fixed2(k, 1024) \o " MB")
    ELSE Ok(ToString(k) \o " KB")

\* the unit tests of format_kb on the integer k
FormatUnits(k) ==
    IF k >= 1024 * 1024 * 1024
    THEN Ok(Fixed2(k, 1024 * 1024 * 1024) \o " TB")
    ELSE IF k >= 1024 * 1024
    THEN Ok(Fixed2(k, 1024 * 1024) \o " GB")
    ELSE IF k >= 1024
    THEN Ok(Fixed2(k, 1024) \o " MB")
    ELSE Ok(ToString(k) \o " KB")

\* k = int(k) and what follows it
FormatParsed(k0, parsed) ==
    IF parsed.ok THEN FormatUnits(parsed.int) ELSE Exc(ValueErrorInt(k0.str))

\* Helper to format KB into TB/GB/MB
format_kb(k0) ==
    IF k0 = None THEN Ok("N/A")
    ELSE IF k0.kind = "str" THEN FormatParsed(k0, ParseInt(k0.str))
    ELSE FormatUnits(k0.int)

(***************************************************************************)
(* _get_array_status: analyze_disk_health.                                 *)
(***************************************************************************)
UpperChar(c) ==
    CASE c = "a" -> "A" [] c = "b" -> "B" [] c = "c" -> "C" [] c = "d" -> "D"
      [] c = "e" -> "E" [] c = "f" -> "F" [] c = "g" -> "G" [] c = "h" -> "H"
      [] c = "i" -> "I" [] c = "j" -> "J" [] c = "k" -> "K" [] c = "l" -> "L"
      [] c = "m" -> "M" [] c = "n" -> "N" [] c = "o" -> "O" [] c = "p" -> "P"
      [] c = "q" -> "Q" [] c = "r" -> "R" [] c = "s" -> "S" [] c = "t" -> "T"
      [] c = "u" -> "U" [] c = "v" -> "V" [] c = "w" -> "W" [] c = "x" -> "X"
      [] c = "y" -> "Y" [] c = "z" -> "Z" [] OTHER -> c

\* s.upper()
RECURSIVE Upper(_)
Upper(s) == IF Len(s) = 0 THEN "" ELSE UpperChar(Char(s, 1)) \o Upper(Tail1(s))

Buckets == {"healthy", "failed", "missing", "new", "warning", "unknown"}

\* the if / elif chain on the upper-cased status and the two flags
Branch(status, warning, critical) ==
    IF status = "DISK_OK"
    THEN IF TruthyScalar(warning) \/ TruthyScalar(critical)
         THEN "warning" ELSE "healthy"
    ELSE IF status \in {"DISK_DSBL", "DISK_INVALID"} THEN "failed"
    ELSE IF status = "DISK_NP" THEN "missing"
    ELSE IF status = "DISK_NEW" THEN "new"
    ELSE "unknown"

\* DiskBucket without .upper()
DiskBucket_CaseSensitive(disk) ==
    Branch(Get(disk, "status", ""),
           Get(disk, "warning", None), Get(disk, "critical", None))

\* the bucket the loop body increments for a disk
DiskBucket(disk) ==
    Branch(Upper(Get(disk, "status", "")),
           Get(disk, "warning", None), Get(disk, "critical", None))

\* health_counts[b] += 1
Increment(counts, b) == [counts EXCEPT ![b] = @ + 1]

\* CountDisks without the final else: an unrecognized status is not counted
RECURSIVE CountDisks_NoElse(_, _)
CountDisks_NoElse(disks, n) ==
    IF n = 0 THEN [b \in Buckets |-> 0]
    ELSE IF DiskBucket(disks[n]) = "unknown"
    THEN CountDisks_NoElse(disks, n - 1)
    ELSE Increment(CountDisks_NoElse(disks, n - 1), DiskBucket(disks[n]))

\* health_counts after the first n iterations of `for disk in disks`
RECURSIVE CountDisks(_, _)
CountDisks(disks, n) ==
    IF n = 0 THEN [b \in Buckets |-> 0]
    ELSE Increment(CountDisks(disks, n - 1), DiskBucket(disks[n]))

\* analyze_disk_health without `if not disks: return {}`
analyze_disk_health_NoEarlyReturn(disks) == CountDisks(disks, Len(disks))

analyze_disk_health(disks) ==
    IF Len(disks) = 0 THEN EmptyDict ELSE CountDisks(disks, Len(disks))

(***************************************************************************)
(* _get_array_status: the statements after the telemetry call.             *)
(***************************************************************************)
\* the key of health_summary for each list of raw_array_info
RoleKey ==
    [parities |-> "parity_health", disks |-> "data_health",
     caches |-> "cache_health"]

\* the lists of raw_array_info that are present and not empty
Roles(raw) == {r \in DOMAIN RoleKey : Len(Get(raw, r, <<>>)) > 0}

\* Analyze health for each disk type: a role with no disk gets no entry
HealthSummary(raw) ==
    [key \in {RoleKey[r] : r \in Roles(raw)} |->
        analyze_disk_health(raw[CHOOSE r \in Roles(raw) : RoleKey[r] = key])]

\* sum(h.get(bucket, 0) for h in health_summary.values())
RECURSIVE SumBucket(_, _, _)
SumBucket(health_summary, keys, bucket) ==
    IF keys = {} THEN 0
    ELSE Get(health_summary[CHOOSE x \in keys : TRUE], bucket, 0)
            + SumBucket(health_summary,
                        keys \ {CHOOSE x \in keys : TRUE}, bucket)

Total(health_summary, bucket) ==
    SumBucket(health_summary, DOMAIN health_summary, bucket)

\* OverallHealth that tests total_missing before total_failed
OverallHealth_MissingFirst(health_summary) ==
    IF Total(health_summary, "missing") > 0 THEN "DEGRADED"
    ELSE IF Total(health_summary, "failed") > 0 THEN "CRITICAL"
    ELSE IF Total(health_summary, "warning") > 0 THEN "WARNING"
    ELSE "HEALTHY"

\* Overall array health assessment
OverallHealth(health_summary) ==
    IF Total(health_summary, "failed") > 0 THEN "CRITICAL"
    ELSE IF Total(health_summary, "missing") > 0 THEN "DEGRADED"
    ELSE IF Total(health_summary, "warning") > 0 THEN "WARNING"
    ELSE "HEALTHY"

\* the three capacity_* entries, or the first exception format_kb raised
CapacityEntries(total, used, free) ==
    IF total.raised THEN total
    ELSE IF used.raised THEN used
    ELSE IF free.raised THEN free
    ELSE Ok([capacity_total |-> total.value,
             capacity_used |-> used.value,
             capacity_free |-> free.value])

FormatCapacity(kb_cap) ==
    CapacityEntries(format_kb(Get(kb_cap, "total", None)),
                    format_kb(Get(kb_cap, "used", None)),
                    format_kb(Get(kb_cap, "free", None)))

\* the capacity_* entries of summary, or the exception format_kb raised
CapacitySummary(raw) ==
    IF /\ TruthyDict(Get(raw, "capacity", None))
       /\ TruthyDict(Get(raw.capacity, "kilobytes", None))
    THEN FormatCapacity(raw.capacity.kilobytes)
    ELSE Ok(EmptyDict)

\* summary, once the capacity entries and health_summary are known
Summary(raw, capacity, health_summary) ==
    [state |-> Get(raw, "state", None),
     num_parity_disks |-> Len(Get(raw, "parities", <<>>)),
     num_data_disks |-> Len(Get(raw, "disks", <<>>)),
     num_cache_pools |-> Len(Get(raw, "caches", <<>>)),
     overall_health |-> OverallHealth(health_summary),
     health_summary |-> health_summary] @@ capacity

\* the statements from `summary: dict[str, Any] = {}` to the return
Summarize(raw, capacity) ==
    IF capacity.raised THEN capacity
    ELSE Ok([summary |-> Summary(raw, capacity.value, HealthSummary(raw)),
             details |-> raw])

\* the try block of _get_array_status after the telemetry call
ArraySummary(response_data) ==
    IF response_data = None THEN Exc(AttributeErrorGet)
    ELSE IF ~TruthyDict(Get(response_data, "array", EmptyDict))
    THEN Exc("No array information returned from Unraid API")
    ELSE Summarize(response_data.array, CapacitySummary(response_data.array))

\* raise ToolError(f"Failed to retrieve array status: {str(e)}") from e
ToolError(e) == Exc("Failed to retrieve array status: " \o e)

\* except Exception as e: ... raise ToolError(...)
Wrap(r) == IF r.raised THEN ToolError(r.error) ELSE r

\* The body of _get_array_status from the resumption of the telemetry call
\* on: the report it returns, or the ToolError it raises.
get_array_status(resp) ==
    IF resp.kind = "raise" THEN ToolError(resp.error)
    ELSE Wrap(ArraySummary(resp.data))

(***************************************************************************)
(* health_check: the telemetry payloads the model draws.  Missing marks a  *)
(* key that is not in the dict; None is a key whose value is null.         *)
(***************************************************************************)
Missing == [kind |-> "missing"]

\* the dict with the keys of d whose value is not Missing
Present(d) == [k \in {x \in DOMAIN d : d[x] # Missing} |-> d[k]]

\* the sequences over S of length lo..hi
Lists(S, lo, hi) == UNION {[1..n -> S] : n \in lo..hi}

InfoOk ==
    [machineId |-> Text("m1"), time |-> Text("2025-01-01T00:00:00Z"),
     versions |-> [core |-> [unraid |-> Text("7.0.0")]],
     os |-> [uptime |-> Text("2024-12-01T00:00:00Z")]]

InfoValues == {Missing, None, InfoOk, [InfoOk EXCEPT !.versions = None]}

ArrayValues ==
    {Missing, None, [id |-> Text("array")], [state |-> None]}
    \cup {[state |-> Text(s)] : s \in {"STARTED", "STOPPED", "RECON_DISK"}}

NotificationValues ==
    {Missing, [overview |-> None], [overview |-> [unread |-> None]],
     [overview |-> [unread |->
         [alert |-> None, warning |-> Num(0), total |-> Num(0)]]]}
    \cup {[overview |-> [unread |->
              [alert |-> Num(a), warning |-> Num(w), total |-> Num(a + w)]]] :
          a \in 0..MaxAlerts, w \in 0..1}

ContainerValues ==
    {[id |-> Text("c1"), state |-> Text("running"), status |-> Text("Up 2 hours")],
     [id |-> Text("c2"), state |-> Text("exited"), status |-> Text("Exited (0)")],
     [id |-> Text("c3"), state |-> Text("running"), status |-> None]}

DockerValues ==
    {Missing, [containers |-> None], [containers |-> List(<<>>)]}
    \cup {[containers |-> List(cs)] : cs \in Lists(ContainerValues, 1, MaxContainers)}

ResponseData ==
    {None}
    \cup {Present([info |-> i, array |-> a, notifications |-> n, docker |-> d]) :
          i \in InfoValues, a \in ArrayValues,
          n \in NotificationValues, d \in DockerValues}

Latencies ==
    {Ms(50), Ms(5000), Ms(5000) + 1, Ms(10000), Ms(10000) + 1, Ms(12000)}

\* what make_graphql_request does: it returns a payload or raises
Returned(data) == [kind |-> "return", data |-> data]
Raised(e) == [kind |-> "raise", error |-> e]

TelemetryErrors == {"HTTP error 502: Bad Gateway", "Network connection error"}

Responses ==
    {Returned(data) : data \in ResponseData}
    \cup {Raised(e) : e \in TelemetryErrors}

(***************************************************************************)
(* _get_array_status: the telemetry payloads the model draws.  The status  *)
(* of a disk is a string (an enum of the API), its flags are null or a     *)
(* number.                                                                 *)
(***************************************************************************)
Disk(status, warning, critical) ==
    [status |-> status, warning |-> warning, critical |-> critical]

DiskValues ==
    {Disk("DISK_OK", None, None),
     Disk("disk_ok", Num(45), None),
     Disk("DISK_OK", Num(0), Num(55)),
     Disk("DISK_DSBL", None, None),
     Disk("Disk_Invalid", Num(45), None),
     Disk("DISK_NP", None, None),
     Disk("DISK_NEW", None, None),
     Disk("DISK_NP_DSBL", None, None)}

KbValues ==
    {None, Num(0), Num(1023), Num(1024), Num(1152), Num(1048575),
     Num(1048576), Num(1073741823), Num(1073741824), Num(1610612736),
     Text("0"), Text("1024"), Text(" 2048 "), Text("1073741824"), Text("-5"),
     Text("abc"), Text(""), Text("1.5")}

CapacityOk ==
    [kilobytes |->
        [total |-> Text("2048"), used |-> Text("1024"), free |-> Text("1024")]]

\* an array section with the given parity, data and cache lists
ArrayWith(p, d, c) ==
    [state |-> Text("STARTED"), capacity |-> CapacityOk,
     parities |-> p, disks |-> d, caches |-> c]

CapacityValues ==
    {Missing, None, [kilobytes |-> None], [kilobytes |-> EmptyDict]}
    \cup {[kilobytes |-> Present([total |-> t, used |-> u, free |-> f])] :
          t \in KbValues \cup {Missing},
          u \in {Num(512), Text("n/a")},
          f \in {None, Text("1024")}}

\* the payloads that vary the response and the capacity section; those
\* that vary the disk lists are drawn in GasResume
ArrayData ==
    {None, EmptyDict, [array |-> None], [array |-> EmptyDict],
     [array |-> [state |-> Text("STARTED"), capacity |-> CapacityOk]]}
    \cup {[array |-> Present([state |-> Text("STOPPED"), capacity |-> c])
                       @@ [parities |-> <<Disk("DISK_OK", None, None)>>,
                           disks |-> <<Disk("DISK_NP", None, None)>>,
                           caches |-> <<>>]] : c \in CapacityValues}

ArrayResponses ==
    {Returned(data) : data \in ArrayData}
    \cup {Raised(e) : e \in TelemetryErrors}

(***************************************************************************)
(* The tool invocations.  An invocation is idle, or suspended in its       *)
(* telemetry call (awaiting), or has produced its result (done).           *)
(***************************************************************************)
VARIABLES hc, gas, calls, unit

vars == <<hc, gas, calls, unit>>

\* the invocations of health_check and of get_array_status
Invocations == {"h1", "h2"}
ArrayInvocations == {"g1"}

NoResp == [kind |-> "nocall"]

Idle == [pc |-> "idle", resp |-> NoResp, api_latency |-> 0,
         report |-> EmptyDict]

\* no helper is under study
NoUnit == [fn |-> "none", applied |-> FALSE]

Init ==
    /\ hc = [i \in Invocations |-> Idle]
    /\ gas = [g \in ArrayInvocations |->
                 [pc |-> "idle", resp |-> NoResp, result |-> Ok(EmptyDict)]]
    /\ calls = [i \in Invocations \cup ArrayInvocations |-> 0]
    /\ unit = NoUnit

\* no invocation is in progress
Quiet ==
    /\ \A i \in Invocations : hc[i].pc = "idle"
    /\ \A g \in ArrayInvocations : gas[g].pc = "idle"

\* health_check up to its suspension in `await make_graphql_request(...)`
HcCall(i) ==
    /\ hc[i].pc = "idle"
    /\ hc' = [hc EXCEPT ![i].pc = "awaiting"]
    /\ calls' = [calls EXCEPT ![i] = @ + 1]
    /\ UNCHANGED <<gas, unit>>

\* HcFinish with one issue list shared by the invocations: the issues of
\* a finished invocation are still in the list when the next one appends
HcFinish_SharedIssues(h, i, resp, api_latency) ==
    LET own == health_check(resp, api_latency)
        others == {j \in DOMAIN h \ {i} :
                      h[j].pc = "done" /\ "issues" \in DOMAIN h[j].report}
        before == h[CHOOSE j \in others : TRUE].report.issues
    IN  [h EXCEPT ![i] = [pc |-> "done", resp |-> resp,
                          api_latency |-> api_latency,
                          report |-> IF others # {} /\ "issues" \in DOMAIN own
                                     THEN DictSet(own, "issues",
                                                  before \o own.issues)
                                     ELSE own]]

\* the frame of invocation i after its coroutine ran to its return: the
\* locals and the report are the invocation's own
HcFinish(h, i, resp, api_latency) ==
    [h EXCEPT ![i] = [pc |-> "done", resp |-> resp,
                      api_latency |-> api_latency,
                      report |-> health_check(resp, api_latency)]]

\* HcResumeFrom that repeats the telemetry call once after a failure
HcResumeFrom_Retry(i, R, L) ==
    /\ hc[i].pc = "awaiting"
    /\ \E resp \in R, api_latency \in L :
          IF resp.kind = "raise" /\ calls[i] < 2
          THEN /\ hc' = hc
               /\ calls' = [calls EXCEPT ![i] = @ + 1]
          ELSE /\ hc' = HcFinish(hc, i, resp, api_latency)
               /\ UNCHANGED calls
    /\ UNCHANGED <<gas, unit>>

\* the telemetry call completes with an outcome of R after a time of L and
\* health_check runs to its return
HcResumeFrom(i, R, L) ==
    /\ hc[i].pc = "awaiting"
    /\ \E resp \in R, api_latency \in L :
          hc' = HcFinish(hc, i, resp, api_latency)
    /\ UNCHANGED <<gas, calls, unit>>

\* the telemetry call completes and health_check runs to its return
HcResume(i) == HcResumeFrom(i, Responses, Latencies)

\* the report has been handed to the client; its locals are gone
HcReturn(i) ==
    /\ hc[i].pc = "done"
    /\ hc' = [hc EXCEPT ![i] = Idle]
    /\ calls' = [calls EXCEPT ![i] = 0]
    /\ UNCHANGED <<gas, unit>>

\* _get_array_status up to its suspension in `await make_graphql_request`
GasCall(g) ==
    /\ gas[g].pc = "idle"
    /\ gas' = [gas EXCEPT ![g].pc = "awaiting"]
    /\ calls' = [calls EXCEPT ![g] = @ + 1]
    /\ UNCHANGED <<hc, unit>>

\* _get_array_status runs from the telemetry call's outcome to its end
GasFinish(g, resp) ==
    gas' = [gas EXCEPT ![g] = [pc |-> "done", resp |-> resp,
                              result |-> get_array_status(resp)]]

\* the telemetry call completes and _get_array_status runs to its end; the
\* disk lists drawn have at most MaxDisks disks altogether
GasResume(g) ==
    /\ gas[g].pc = "awaiting"
    /\ \/ \E resp \in ArrayResponses : GasFinish(g, resp)
       \/ \E p \in Lists(DiskValues, 0, MaxDisks) :
             \E d \in Lists(DiskValues, 0, MaxDisks - Len(p)) :
                \E c \in Lists(DiskValues, 0, MaxDisks - Len(p) - Len(d)) :
                   GasFinish(g, Returned([array |-> ArrayWith(p, d, c)]))
    /\ UNCHANGED <<hc, calls, unit>>

\* the report or the ToolError has been handed to the client
GasReturn(g) ==
    /\ gas[g].pc = "done"
    /\ gas' = [gas EXCEPT ![g] = [pc |-> "idle", resp |-> NoResp,
                                  result |-> Ok(EmptyDict)]]
    /\ calls' = [calls EXCEPT ![g] = 0]
    /\ UNCHANGED <<hc, unit>>

\* a client that issues one tool call at a time
Next ==
    \/ \E i \in Invocations : Quiet /\ HcCall(i)
    \/ \E i \in Invocations : HcResume(i)
    \/ \E i \in Invocations : HcReturn(i)
    \/ \E g \in ArrayInvocations : Quiet /\ GasCall(g)
    \/ \E g \in ArrayInvocations : GasResume(g)
    \/ \E g \in ArrayInvocations : GasReturn(g)

Spec == Init /\ [][Next]_vars

(***************************************************************************)
(* Two clients: the two invocations of health_check may both be suspended  *)
(* in their telemetry call, and resume in either order.  The event loop    *)
(* runs one coroutine at a time between awaits, so each action is atomic.  *)
(***************************************************************************)
PairData ==
    {None}
    \cup {Present([info |-> i, array |-> a, notifications |-> n, docker |-> d]) :
          i \in {Missing, InfoOk},
          a \in {Missing, [state |-> Text("STARTED")],
                 [state |-> Text("RECON_DISK")]},
          n \in {Missing,
                 [overview |-> [unread |-> [alert |-> Num(0),
                     warning |-> Num(1), total |-> Num(1)]]],
                 [overview |-> [unread |-> [alert |-> Num(1),
                     warning |-> Num(0), total |-> Num(1)]]]},
          d \in {Missing, [containers |-> List(<<>>)]}
                 \cup {[containers |-> List(<<c>>)] : c \in ContainerValues}}

PairResponses ==
    {Returned(data) : data \in PairData} \cup {Raised("Network connection error")}

PairLatencies == {Ms(50), Ms(5000) + 1, Ms(12000)}

NextPair ==
    \/ \E i \in Invocations : HcCall(i)
    \/ \E i \in Invocations : HcResumeFrom(i, PairResponses, PairLatencies)
    \/ \E i \in Invocations : HcReturn(i)

SpecPair == Init /\ [][NextPair]_vars

(***************************************************************************)
(* The helpers of _get_array_status on their own: the nested functions     *)
(* analyze_disk_health and format_kb applied to an argument drawn at the   *)
(* start, the empty disk list included.                                    *)
(***************************************************************************)
FnDiskValues ==
    DiskValues
    \cup {[warning |-> None, critical |-> None],
          Disk("DISK_OK", Num(0), None)}

UnitArgs ==
    {[fn |-> "analyze_disk_health", arg |-> List(disks), applied |-> FALSE] :
        disks \in Lists(FnDiskValues, 0, MaxList)}
    \cup {[fn |-> "format_kb", arg |-> k, applied |-> FALSE] : k \in KbValues}

InitFn ==
    /\ hc = [i \in Invocations |-> Idle]
    /\ gas = [g \in ArrayInvocations |->
                 [pc |-> "idle", resp |-> NoResp, result |-> Ok(EmptyDict)]]
    /\ calls = [i \in Invocations \cup ArrayInvocations |-> 0]
    /\ unit \in UnitArgs

ApplyAnalyzeDiskHealth ==
    /\ unit.fn = "analyze_disk_health"
    /\ ~unit.applied
    /\ unit' = [fn |-> unit.fn, arg |-> unit.arg, applied |-> TRUE,
                ret |-> analyze_disk_health(unit.arg.items)]
    /\ UNCHANGED <<hc, gas, calls>>

ApplyFormatKb ==
    /\ unit.fn = "format_kb"
    /\ ~unit.applied
    /\ unit' = [fn |-> unit.fn, arg |-> unit.arg, applied |-> TRUE,
                ret |-> format_kb(unit.arg)]
    /\ UNCHANGED <<hc, gas, calls>>

NextFn == ApplyAnalyzeDiskHealth \/ ApplyFormatKb

SpecFn == InitFn /\ [][NextFn]_vars

(***************************************************************************)
(* Vocabulary of the properties of health_check.                           *)
(***************************************************************************)
Subsections == {"unraid_system", "array_status", "notifications",
                "docker_services"}

Rank(status) ==
    CASE status = "healthy"   -> 0
      [] status = "warning"   -> 1
      [] status = "degraded"  -> 2
      [] status = "unhealthy" -> 3

SetMax(S) == CHOOSE m \in S : \A x \in S : x <= m

\* the payload of invocation i and the sections the rules read
DataOf(i) == hc[i].resp.data
InfoAbsent(rd) == ~TruthyDict(Get(rd, "info", EmptyDict))
ArrayAbsent(rd) == ~TruthyDict(Get(rd, "array", EmptyDict))
ArrayState(rd) == Get(rd.array, "state", Text("unknown"))
ArrayUnexpected(rd) ==
    ~ArrayAbsent(rd) /\ ArrayState(rd) \notin {Text("STARTED"), Text("STOPPED")}
UnreadAlerts(rd) ==
    LET n == Get(rd, "notifications", EmptyDict)
        o == Get(n, "overview", None)
    IN  IF TruthyDict(n) /\ TruthyDict(o) THEN Get(o.unread, "alert", Num(0)).int
        ELSE 0

\* invocation i got a non-empty payload
GotPayload(i) ==
    /\ hc[i].pc = "done"
    /\ hc[i].resp.kind = "return"
    /\ DataOf(i) # None
    /\ DOMAIN DataOf(i) # {}

\* invocation i got no payload: null or an empty dict
GotNothing(i) ==
    /\ hc[i].pc = "done"
    /\ hc[i].resp.kind = "return"
    /\ (DataOf(i) = None \/ DOMAIN DataOf(i) = {})

\* the exception health_check caught in invocation i, "" when there is none
FaultOf(i) ==
    IF hc[i].resp.kind = "raise" THEN hc[i].resp.error
    ELSE IF GotPayload(i)
    THEN LET st == EvalSteps(DataOf(i), hc[i].api_latency, NumChecks)
         IN  IF st.raised THEN st.error ELSE ""
    ELSE ""

Faulted(i) == hc[i].pc = "done" /\ FaultOf(i) # ""

\* invocation i evaluated every check of a non-empty payload
Evaluated(i) == GotPayload(i) /\ FaultOf(i) = ""

\* the ranks of the rules that fire on a payload and a latency
FiredRanks(rd, l) ==
    {Rank("healthy")}
    \cup (IF InfoAbsent(rd) THEN {Rank("degraded")} ELSE {})
    \cup (IF ArrayUnexpected(rd) THEN {Rank("warning")} ELSE {})
    \cup (IF ArrayAbsent(rd) THEN {Rank("warning")} ELSE {})
    \cup (IF UnreadAlerts(rd) > 0 THEN {Rank("warning")} ELSE {})
    \cup (IF l > Ms(5000) THEN {Rank("warning")} ELSE {})
    \cup (IF l > Ms(10000) THEN {Rank("degraded")} ELSE {})

\* system info present, array STARTED, no unread alert
Nominal(rd) ==
    /\ ~InfoAbsent(rd)
    /\ ~ArrayAbsent(rd)
    /\ ArrayState(rd) = Text("STARTED")
    /\ UnreadAlerts(rd) = 0

(***************************************************************************)
(* C1: for every non-empty payload and every latency, the status that      *)
(* health_check returns is the maximum rank among the checks that fired;   *)
(* no later check lowers the rank an earlier one set.                      *)
(* The code overwrites health_status, so this is violated.                 *)
(***************************************************************************)
C1_StatusIsMaxRank ==
    \A i \in Invocations :
        Evaluated(i) =>
            Rank(hc[i].report.status)
                = SetMax(FiredRanks(DataOf(i), hc[i].api_latency))

(***************************************************************************)
(* C2: with a nominal payload and a latency above 10000 ms health_check    *)
(* returns status degraded.  The code's second latency test is an elif of  *)
(* the first and never runs, so this is violated.                          *)
(***************************************************************************)
C2_VerySlowIsDegraded ==
    \A i \in Invocations :
        (Evaluated(i) /\ Nominal(DataOf(i)) /\ hc[i].api_latency > Ms(10000))
            => hc[i].report.status = "degraded"

(***************************************************************************)
(* C3: when the telemetry call returns no payload, health_check returns    *)
(* status unhealthy, issues exactly <<"No response from Unraid API">> and  *)
(* none of the subsections.                                                *)
(***************************************************************************)
C3_NoResponse ==
    \A i \in Invocations :
        GotNothing(i) =>
            /\ hc[i].report.status = "unhealthy"
            /\ "issues" \in DOMAIN hc[i].report
            /\ hc[i].report.issues = <<"No response from Unraid API">>
            /\ DOMAIN hc[i].report \cap Subsections = {}

\* an invocation has returned from a null payload
C3_Witness ==
    \E i \in Invocations :
        GotNothing(i) /\ DataOf(i) = None /\ "status" \in DOMAIN hc[i].report

RuleBucket(disk) ==
    LET code == Upper(Get(disk, "status", ""))
        flagged == \/ TruthyScalar(Get(disk, "warning", None))
                   \/ TruthyScalar(Get(disk, "critical", None))
    IN  CASE code = "DISK_OK" /\ flagged -> "warning"
          [] code = "DISK_OK" /\ ~flagged -> "healthy"
          [] code \in {"DISK_DSBL", "DISK_INVALID"} -> "failed"
          [] code = "DISK_NP" -> "missing"
          [] code = "DISK_NEW" -> "new"
          [] OTHER -> "unknown"

\* the positions of a disk list whose disk the rules put in bucket b
InBucket(disks, b) == {n \in DOMAIN disks : RuleBucket(disks[n]) = b}

\* the disks of all roles of an array section
RoleDisks(raw) ==
    Get(raw, "parities", <<>>) \o Get(raw, "disks", <<>>)
        \o Get(raw, "caches", <<>>)

\* invocation g returned a report
Reported(g) == gas[g].pc = "done" /\ ~gas[g].result.raised

\* invocation g got a payload with an array section
GotArray(g) ==
    /\ gas[g].pc = "done"
    /\ gas[g].resp.kind = "return"
    /\ gas[g].resp.data # None
    /\ TruthyDict(Get(gas[g].resp.data, "array", EmptyDict))

RawOf(g) == gas[g].resp.data.array
SummaryOf(g) == gas[g].result.value.summary

\* analyze_disk_health, format_kb have been applied to the drawn argument
Classified == unit.fn = "analyze_disk_health" /\ unit.applied
Formatted == unit.fn = "format_kb" /\ unit.applied

RECURSIVE SumValues(_, _)
SumValues(f, keys) ==
    IF keys = {} THEN 0
    ELSE LET k == CHOOSE x \in keys : TRUE
         IN  f[k] + SumValues(f, keys \ {k})

EndsWith(s, suffix) ==
    /\ Len(s) >= Len(suffix)
    /\ SubSeq(s, Len(s) - Len(suffix) + 1, Len(s)) = suffix

\* a capacity figure that is a number or a string int() accepts
IsNumeric(k) == k.kind = "int" \/ (k.kind = "str" /\ ParseInt(k.str).ok)
KbNumber(k) == IF k.kind = "int" THEN k.int ELSE ParseInt(k.str).int

(***************************************************************************)
(* C5: the overall_health that get_array_status returns is CRITICAL iff    *)
(* some disk of some role is in the failed bucket; otherwise DEGRADED iff  *)
(* some disk is missing; otherwise WARNING iff some disk is in the warning *)
(* bucket; otherwise HEALTHY, whatever role the disks are in.              *)
(***************************************************************************)
C5_OverallHealth ==
    \A g \in ArrayInvocations :
        Reported(g) =>
            LET all == RoleDisks(RawOf(g))
            IN  SummaryOf(g).overall_health =
                    IF InBucket(all, "failed") # {} THEN "CRITICAL"
                    ELSE IF InBucket(all, "missing") # {} THEN "DEGRADED"
                    ELSE IF InBucket(all, "warning") # {} THEN "WARNING"
                    ELSE "HEALTHY"

\* a report for a failed cache disk next to a missing parity disk
C5_Witness ==
    \E g \in ArrayInvocations :
        /\ Reported(g)
        /\ InBucket(Get(RawOf(g), "caches", <<>>), "failed") # {}
        /\ InBucket(Get(RawOf(g), "parities", <<>>), "missing") # {}
        /\ SummaryOf(g).overall_health = "CRITICAL"

(***************************************************************************)
(* C6: for any disk list the bucket counts analyze_disk_health returns     *)
(* sum to the number of disks in the list.                                 *)
(***************************************************************************)
C6_CountsSumToLength ==
    Classified =>
        SumValues(unit.ret, DOMAIN unit.ret) = Len(unit.arg.items)

\* a list of two disks of different buckets has been classified
C6_Witness ==
    /\ Classified
    /\ Len(unit.arg.items) = 2
    /\ RuleBucket(unit.arg.items[1]) # RuleBucket(unit.arg.items[2])
    /\ "unknown" \in {RuleBucket(unit.arg.items[1]),
                      RuleBucket(unit.arg.items[2])}

C8_BucketRules ==
    Classified =>
        \A b \in Buckets :
            Get(unit.ret, b, 0) = Cardinality(InBucket(unit.arg.items, b))

\* a lower-case OK disk with a warning flag has been counted as warning
C8_Witness ==
    /\ Classified
    /\ \E n \in DOMAIN unit.arg.items :
          unit.arg.items[n] = Disk("disk_ok", Num(45), None)
    /\ unit.ret["warning"] > 0

(***************************************************************************)
(* C9: format_kb never raises: a capacity figure that is None or does not  *)
(* parse as an integer is shown as "N/A", and get_array_status returns     *)
(* its report.  The code lets int() raise, so this is violated.            *)
(***************************************************************************)
C9_MalformedCapacityTolerated ==
    \A g \in ArrayInvocations :
        GotArray(g) =>
            /\ ~gas[g].result.raised
            /\ LET capacity == Get(RawOf(g), "capacity", None)
                   kb_cap == Get(capacity, "kilobytes", None)
                   total == Get(kb_cap, "total", None)
               IN  (/\ TruthyDict(capacity)
                    /\ TruthyDict(kb_cap)
                    /\ (total = None \/ ~IsNumeric(total)))
                       => SummaryOf(g).capacity_total = "N/A"

(***************************************************************************)
(* C10: format_kb coerces a number or numeric string k to an integer and   *)
(* picks the unit by binary thresholds: TB from 2^30, GB from 2^20, MB     *)
(* from 2^10, else the plain integer with KB; 0 gives "0 KB", 1023 gives   *)
(* KB, 1024 gives "1.00 MB" and 1073741824 gives "1.00 TB".                *)
(***************************************************************************)
C10_UnitThresholds ==
    (Formatted /\ IsNumeric(unit.arg)) =>
        LET k == KbNumber(unit.arg)
            text == unit.ret.value
        IN  /\ ~unit.ret.raised
            /\ IF k >= 1024 * 1024 * 1024 THEN EndsWith(text, " TB")
               ELSE IF k >= 1024 * 1024 THEN EndsWith(text, " GB")
               ELSE IF k >= 1024 THEN EndsWith(text, " MB")
               ELSE text = ToString(k) \o " KB"
            /\ unit.arg \in {Num(0), Text("0")} => text = "0 KB"
            /\ unit.arg = Num(1023) => text = "1023 KB"
            /\ unit.arg \in {Num(1024), Text("1024")} => text = "1.00 MB"
            /\ unit.arg \in {Num(1073741824), Text("1073741824")}
                  => text = "1.00 TB"

\* the string "1073741824" has been formatted as one terabyte
C10_Witness ==
    /\ Formatted
    /\ unit.arg = Text("1073741824")
    /\ unit.ret = Ok("1.00 TB")

(***************************************************************************)
(* Vocabulary of the claims about the single checks of health_check.       *)
(***************************************************************************)
\* what a report says about health: its status and its list of issues
Verdict(report) ==
    [status |-> report.status, issues |-> Get(report, "issues", <<>>)]

\* the sections of a payload other than docker
Others(rd) == [k \in DOMAIN rd \ {"docker"} |-> rd[k]]

\* invocation i got a payload, empty or not, and no check raised
Answered(i) ==
    /\ hc[i].pc = "done"
    /\ hc[i].resp.kind = "return"
    /\ DataOf(i) # None
    /\ FaultOf(i) = ""

\* the reports of i and j are for payloads that differ at most in their
\* docker section, at the same latency
DockerTwins(i, j) ==
    /\ hc[i].api_latency = hc[j].api_latency
    /\ Others(DataOf(i)) = Others(DataOf(j))

ArrayExpected(rd) ==
    ~ArrayAbsent(rd) /\ ArrayState(rd) \in {Text("STARTED"), Text("STOPPED")}

(***************************************************************************)
(* C12: when system info is present, the array state is STARTED or         *)
(* STOPPED, the unread alert count is 0 and the latency is at most 5000    *)
(* ms, health_check returns status healthy and no issues, whatever the     *)
(* unread warning count, the total unread count and the docker section.    *)
(***************************************************************************)
C12_NominalIsHealthy ==
    \A i \in Invocations :
        (/\ Evaluated(i)
         /\ ~InfoAbsent(DataOf(i))
         /\ ArrayExpected(DataOf(i))
         /\ UnreadAlerts(DataOf(i)) = 0
         /\ hc[i].api_latency <= Ms(5000))
            => /\ hc[i].report.status = "healthy"
               /\ "issues" \notin DOMAIN hc[i].report

\* array STOPPED, an unread warning, an exited container, exactly 5000 ms
C12_Witness ==
    /\ Evaluated("h1")
    /\ ~InfoAbsent(DataOf("h1"))
    /\ ArrayExpected(DataOf("h1"))
    /\ ArrayState(DataOf("h1")) = Text("STOPPED")
    /\ "notifications" \in DOMAIN hc["h1"].report
    /\ hc["h1"].report.notifications.unread_alerts = Num(0)
    /\ hc["h1"].report.notifications.unread_warnings = Num(1)
    /\ "docker_services" \in DOMAIN hc["h1"].report
    /\ hc["h1"].report.docker_services.stopped_containers = 1
    /\ hc["h1"].api_latency = Ms(5000)
    /\ hc["h1"].report.status = "healthy"

AlertIssue(n) == ToString(n) \o " unread alert notification(s)"

IssuesOf(i) == Verdict(hc[i].report).issues

\* the issues of invocation i as a set
IssueSet(i) == {IssuesOf(i)[k] : k \in DOMAIN IssuesOf(i)}

(***************************************************************************)
(* C13: whenever the payload is non-empty and the unread alert count n is  *)
(* greater than 0, the status returned by health_check is at least warning *)
(* and the issue list contains "n unread alert notification(s)"; an unread *)
(* alert count of 0 adds no alert issue.                                   *)
(***************************************************************************)
C13_UnreadAlerts ==
    \A i \in Invocations :
        Evaluated(i) =>
            IF UnreadAlerts(DataOf(i)) > 0
            THEN /\ Rank(hc[i].report.status) >= Rank("warning")
                 /\ AlertIssue(UnreadAlerts(DataOf(i))) \in IssueSet(i)
            ELSE \A x \in IssueSet(i) :
                     ~EndsWith(x, " unread alert notification(s)")

\* one unread alert after an absent system info
C13_Witness ==
    /\ Evaluated("h1")
    /\ InfoAbsent(DataOf("h1"))
    /\ UnreadAlerts(DataOf("h1")) = 1
    /\ "1 unread alert notification(s)" \in IssueSet("h1")
    /\ hc["h1"].report.notifications.has_critical_notifications

ArrayIssue(state) == "Array in unexpected state: " \o PyStr(state)

\* an issue about the array, of either kind
IsArrayIssue(x) ==
    \/ StartsWith(x, "Array in unexpected state")
    \/ x = "Unable to retrieve array status"

(***************************************************************************)
(* C14: whenever the payload is non-empty and the array section is present *)
(* with a state outside {STARTED, STOPPED}, a missing state field          *)
(* included, the status returned by health_check is at least warning and   *)
(* the issue list contains an entry naming the actual state; a state of    *)
(* STARTED or STOPPED adds no array issue and marks array_status.healthy   *)
(* true.                                                                   *)
(***************************************************************************)
C14_ArrayState ==
    \A i \in Invocations :
        (Evaluated(i) /\ ~ArrayAbsent(DataOf(i))) =>
            /\ "array_status" \in DOMAIN hc[i].report
            /\ hc[i].report.array_status.state = ArrayState(DataOf(i))
            /\ IF ArrayUnexpected(DataOf(i))
               THEN /\ Rank(hc[i].report.status) >= Rank("warning")
                    /\ ArrayIssue(ArrayState(DataOf(i))) \in IssueSet(i)
                    /\ ~hc[i].report.array_status.healthy
               ELSE /\ \A x \in IssueSet(i) : ~IsArrayIssue(x)
                    /\ hc[i].report.array_status.healthy

\* an array section without a state field is reported as state unknown
C14_Witness ==
    /\ Evaluated("h1")
    /\ ~ArrayAbsent(DataOf("h1"))
    /\ "state" \notin DOMAIN DataOf("h1").array
    /\ "Array in unexpected state: unknown" \in IssueSet("h1")
    /\ hc["h1"].report.status = "warning"

IsLatencyIssue(x) ==
    \/ StartsWith(x, "High API latency")
    \/ StartsWith(x, "Very high API latency")

\* the latency issues of invocation i, in the order of the issue list
LatencyIssues(i) == SelectSeq(IssuesOf(i), IsLatencyIssue)

(***************************************************************************)
(* C15: the two latency thresholds are evaluated independently: for a      *)
(* latency above 10000 ms the issue list contains two latency issues, the  *)
(* one of the > 5000 ms check and then the one of the > 10000 ms check.    *)
(* The second test is an elif of the first (as in C2), so only the first   *)
(* issue is ever recorded and this is violated.                            *)
(***************************************************************************)
C15_TwoLatencyIssues ==
    \A i \in Invocations :
        (Evaluated(i) /\ hc[i].api_latency > Ms(10000)) =>
            /\ Len(LatencyIssues(i)) = 2
            /\ StartsWith(LatencyIssues(i)[1], "High API latency")
            /\ StartsWith(LatencyIssues(i)[2], "Very high API latency")

NotificationsAbsent(rd) == ~TruthyDict(Get(rd, "notifications", EmptyDict))

\* the check an issue comes from
IssueKind(x) ==
    IF x = "Unable to retrieve system info" THEN "info"
    ELSE IF IsArrayIssue(x) THEN "array"
    ELSE IF IsLatencyIssue(x) THEN "latency"
    ELSE "notifications"

IssueKinds(i) == [k \in DOMAIN IssuesOf(i) |-> IssueKind(IssuesOf(i)[k])]

\* the checks that fire on a payload and a latency, in evaluation order;
\* a missing section fires the check of that section
FiredKinds(rd, l) ==
    (IF InfoAbsent(rd) THEN <<"info">> ELSE <<>>)
    \o (IF ArrayAbsent(rd) \/ ArrayUnexpected(rd) THEN <<"array">> ELSE <<>>)
    \o (IF NotificationsAbsent(rd) \/ UnreadAlerts(rd) > 0
        THEN <<"notifications">> ELSE <<>>)
    \o (IF l > Ms(5000) THEN <<"latency">> ELSE <<>>)
    \o (IF l > Ms(10000) THEN <<"latency">> ELSE <<>>)

(***************************************************************************)
(* C16: when a domain section (system info, array or notifications) is     *)
(* missing from a non-empty payload, health_check records the issue of     *)
(* that section and still evaluates the remaining checks: the issue list   *)
(* holds one issue per check that fires, in the order system info, array,  *)
(* notifications, latency.  Violated: a missing notifications section      *)
(* records nothing, and the > 10000 ms check never fires (C2).             *)
(***************************************************************************)
C16_PartialData ==
    \A i \in Invocations :
        (/\ Evaluated(i)
         /\ \/ InfoAbsent(DataOf(i))
            \/ ArrayAbsent(DataOf(i))
            \/ NotificationsAbsent(DataOf(i)))
            => IssueKinds(i) = FiredKinds(DataOf(i), hc[i].api_latency)

\* the part of C16 that the code keeps: with notifications present and a
\* latency of at most 10000 ms, every check that fires leaves its issue
C16_PartialDataKept ==
    \A i \in Invocations :
        (/\ Evaluated(i)
         /\ ~NotificationsAbsent(DataOf(i))
         /\ hc[i].api_latency <= Ms(10000))
            => IssueKinds(i) = FiredKinds(DataOf(i), hc[i].api_latency)

(***************************************************************************)
(* C17: every invocation of health_check and of get_array_status issues    *)
(* exactly one telemetry call on every path (success, absent payload,      *)
(* fault): one call has been issued while the invocation is suspended and  *)
(* still one when it has finished, whatever the call's outcome was.        *)
(***************************************************************************)
C17_OneTelemetryCall ==
    /\ \A i \in Invocations :
          calls[i] = IF hc[i].pc \in {"awaiting", "done"} THEN 1 ELSE 0
    /\ \A g \in ArrayInvocations :
          calls[g] = IF gas[g].pc \in {"awaiting", "done"} THEN 1 ELSE 0

\* a health_check whose telemetry call failed has finished with one call
C17_Witness ==
    /\ hc["h1"].pc = "done"
    /\ hc["h1"].resp.kind = "raise"
    /\ hc["h1"].report.status = "unhealthy"
    /\ calls["h1"] = 1

(***************************************************************************)
(* C18: concurrent invocations of health_check do not interact: under      *)
(* every interleaving of two invocations that suspend at their telemetry   *)
(* call, the status and the issue list of each finished invocation are     *)
(* those health_check gives for its own payload and latency alone, and     *)
(* stay so while the other invocation is called, resumes and returns.      *)
(***************************************************************************)
C18_NoInterference ==
    \A i \in Invocations :
        hc[i].pc = "done" =>
            Verdict(hc[i].report)
                = Verdict(health_check(hc[i].resp, hc[i].api_latency))

\* both invocations have finished and not yet returned, with different
\* statuses and no issue in common
C18_Witness ==
    /\ Evaluated("h1") /\ Evaluated("h2")
    /\ hc["h1"].report.status = "degraded"
    /\ hc["h2"].report.status = "warning"
    /\ IssueSet("h1") # {} /\ IssueSet("h2") # {}
    /\ IssueSet("h1") \cap IssueSet("h2") = {}

\* the locals of invocation i after the first n checks
LocalsAfter(i, n) == EvalSteps(DataOf(i), hc[i].api_latency, n)

(***************************************************************************)
(* C19: on every path of health_check that does not end in the fault       *)
(* handler, after every check the status is healthy iff the issue list is  *)
(* empty: a check that changes the status appends exactly one issue, a     *)
(* check that appends an issue appends one and leaves a status that is not *)
(* healthy; and the returned report has an issues key iff its status is    *)
(* not healthy.                                                            *)
(***************************************************************************)
C19_HealthyIffNoIssues ==
    \A i \in Invocations :
        /\ Evaluated(i) =>
              /\ \A n \in 0..NumChecks :
                    LocalsAfter(i, n).health_status = "healthy"
                        <=> LocalsAfter(i, n).issues = <<>>
              /\ \A n \in 1..NumChecks :
                    LET before == LocalsAfter(i, n - 1)
                        after == LocalsAfter(i, n)
                    IN  /\ \/ after.issues = before.issues
                           \/ /\ Len(after.issues) = Len(before.issues) + 1
                              /\ SubSeq(after.issues, 1, Len(before.issues))
                                    = before.issues
                              /\ after.health_status # "healthy"
                        /\ after.health_status # before.health_status
                              => after.issues # before.issues
        /\ (Evaluated(i) \/ GotNothing(i)) =>
              ("issues" \in DOMAIN hc[i].report
                  <=> hc[i].report.status # "healthy")

\* three checks fired one after the other: degraded, then warning twice
C19_Witness ==
    /\ Evaluated("h1")
    /\ Len(IssuesOf("h1")) = 3
    /\ LocalsAfter("h1", 1).health_status = "degraded"
    /\ LocalsAfter("h1", 2).health_status = "warning"
    /\ Len(LocalsAfter("h1", 3).issues) = 3
    /\ hc["h1"].report.status = "warning"

====
